---- MODULE Spec2Model ----
(***************************************************************************)
(* Model of convert_files (src/dolphin-audio-converter.py): the batch      *)
(* controller that runs one ffmpeg encoder per input file, polls the       *)
(* encoder's progress file, drives the kdialog progress bar through qdbus  *)
(* and treats a failed mid-flight qdbus call as the user's Cancel.         *)
(***************************************************************************)
EXTENDS Integers, Sequences, FiniteSets, TLC

(***************************************************************************)
(* Python floats.  idx / total * 100 and us / 1e6 / duration are computed  *)
(* in IEEE-754 binary64, so the model carries a positive double as a       *)
(* 53-bit mantissa (a sequence of bits, most significant first) and a      *)
(* binary exponent: value = m * 2^e.  Every operation rounds to nearest,   *)
(* ties to even, as the hardware does.                                     *)
(***************************************************************************)
MantBits == 53
DivExtra == 27
LimbBits == 10
LimbBase == 1024

FZero == [m |-> <<>>, e |-> 0]

Zeros(k) == [i \in 1..k |-> 0]

\* number of bits of n (0 <= n < 2^30)
BitLen(n) == CHOOSE L \in 0..30 : n < 2^L /\ (L = 0 \/ n >= 2^(L - 1))

NatBits(n) == [i \in 1..BitLen(n) |-> (n \div 2^(BitLen(n) - i)) % 2]

RECURSIVE BitsNat(_)
BitsNat(b) ==
    IF Len(b) = 0 THEN 0
    ELSE 2 * BitsNat(SubSeq(b, 1, Len(b) - 1)) + b[Len(b)]

\* drop leading zero bits
Strip(b) ==
    IF \A i \in 1..Len(b) : b[i] = 0 THEN <<>>
    ELSE LET k == CHOOSE k \in 1..Len(b) :
                      b[k] = 1 /\ \A j \in 1..(k - 1) : b[j] = 0
         IN  SubSeq(b, k, Len(b))

\* b + 1
Inc(b) ==
    IF \A i \in 1..Len(b) : b[i] = 1 THEN <<1>> \o Zeros(Len(b))
    ELSE LET p == CHOOSE p \in 1..Len(b) :
                      b[p] = 0 /\ \A j \in (p + 1)..Len(b) : b[j] = 1
         IN  [i \in 1..Len(b) |->
                 IF i < p THEN b[i] ELSE IF i = p THEN 1 ELSE 0]

\* the same natural in base LimbBase, most significant limb first, and back
Limbs(b) ==
    LET n == (Len(b) + LimbBits - 1) \div LimbBits
        p == Zeros(n * LimbBits - Len(b)) \o b
    IN  [k \in 1..n |->
            BitsNat(SubSeq(p, (k - 1) * LimbBits + 1, k * LimbBits))]

Unlimbs(l) ==
    Strip([i \in 1..(Len(l) * LimbBits) |->
             (l[(i - 1) \div LimbBits + 1]
                 \div 2^(LimbBits - 1 - ((i - 1) % LimbBits))) % 2])

\* l * w + carry, schoolbook, from the least significant limb (w < 2^20)
RECURSIVE MulLimbs(_, _, _)
MulLimbs(l, w, carry) ==
    IF Len(l) = 0 THEN Limbs(NatBits(carry))
    ELSE LET t == l[Len(l)] * w + carry
         IN  Append(MulLimbs(SubSeq(l, 1, Len(l) - 1), w, t \div LimbBase),
                    t % LimbBase)

\* l / d, schoolbook long division from the most significant limb (d < 2^20)
RECURSIVE DivLimbs(_, _, _, _, _)
DivLimbs(l, d, k, r, q) ==
    IF k > Len(l) THEN [q |-> q, r |-> r]
    ELSE LET t == r * LimbBase + l[k]
         IN  DivLimbs(l, d, k + 1, t % d, Append(q, t \div d))

\* round the exact value b * 2^e (plus a non-zero tail when inexact) to a double
FRound(b, inexact, e) ==
    IF Len(b) = 0 THEN FZero
    ELSE IF Len(b) <= MantBits
    THEN [m |-> b \o Zeros(MantBits - Len(b)), e |-> e - (MantBits - Len(b))]
    ELSE LET top    == SubSeq(b, 1, MantBits)
             guard  == b[MantBits + 1]
             sticky == inexact \/ \E k \in (MantBits + 2)..Len(b) : b[k] = 1
             up     == guard = 1 /\ (sticky \/ top[MantBits] = 1)
             r      == IF up THEN Inc(top) ELSE top
             sh     == Len(b) - MantBits
         IN  IF Len(r) > MantBits
             THEN [m |-> SubSeq(r, 1, MantBits), e |-> e + sh + 1]
             ELSE [m |-> r, e |-> e + sh]

\* float(n) for a non-negative int
FromInt(n) == FRound(NatBits(n), FALSE, 0)

\* a / d for a double a and a whole-valued divisor d (0 < d < 2^20)
FDiv(a, d) ==
    IF a = FZero THEN FZero
    ELSE LET res == DivLimbs(Limbs(a.m \o Zeros(DivExtra)), d, 1, 0, <<>>)
         IN  FRound(Unlimbs(res.q), res.r # 0, a.e - DivExtra)

\* a * w for a double a and a whole-valued factor w >= 0
FMul(a, w) ==
    IF a = FZero \/ w = 0 THEN FZero
    ELSE FRound(Unlimbs(MulLimbs(Limbs(a.m), w, 0)), FALSE, a.e)

\* min(1.0, a)
FMin1(a) ==
    IF a = FZero THEN FZero
    ELSE IF a.e + MantBits - 1 >= 0 THEN FromInt(1)
    ELSE a

\* int(a): truncation toward zero
FTrunc(a) ==
    IF a = FZero \/ MantBits + a.e <= 0 THEN 0
    ELSE IF a.e >= 0 THEN BitsNat(a.m \o Zeros(a.e))
    ELSE BitsNat(SubSeq(a.m, 1, MantBits + a.e))

\* variant: rounding to the nearest percent instead of truncating
slice_start_at_round(idx, total) == (idx * 200 + total) \div (2 * total)

\* int(idx / total * 100)
slice_start_at(idx, total) == FTrunc(FMul(FDiv(FromInt(idx), total), 100))

\* variant: the slice end taken as start plus an equal share, 100 // total
slice_end_at_share(idx, total) ==
    FTrunc(FMul(FDiv(FromInt(idx), total), 100)) + (100 \div total)

\* int((idx + 1) / total * 100)
slice_end_at(idx, total) == FTrunc(FMul(FDiv(FromInt(idx + 1), total), 100))

\* variant: the fraction without its clamp to 1.0
file_pct_unclamped(us, duration) == FDiv(FDiv(FromInt(us), 1000000), duration)

\* min(1.0, us / 1e6 / duration)
file_pct(us, duration) == FMin1(FDiv(FDiv(FromInt(us), 1000000), duration))

\* slice_start + int(file_pct * (slice_end - slice_start))
overall(us, duration, s, e) == s + FTrunc(FMul(file_pct(us, duration), e - s))


(***************************************************************************)
(* Bounds of the model.                                                    *)
(***************************************************************************)
MaxFiles == 3
MaxRecs == 2

NoDuration == -1
Durations == {NoDuration, 0, 10}
UsValues == {5000000, 30000000}
ExitCodes == {0, 1}
SIGKILL == -9

\* the slices and tick values of every batch within the bounds, by the float
\* expressions above; a run carries them in the variable memo, where they
\* are evaluated once, in the initial state
SliceTable ==
    [n \in 1..MaxFiles |->
        [i \in 0..(n - 1) |-> <<slice_start_at(i, n), slice_end_at(i, n)>>]]

SlicePairs ==
    UNION {{SliceTable[n][i] : i \in 0..(n - 1)} : n \in 1..MaxFiles}

OverallTable ==
    [x \in UsValues \X {d \in Durations : d > 0} \X SlicePairs |->
        overall(x[1], x[2], x[3][1], x[3][2])]

(***************************************************************************)
(* State of one run of convert_files and of its collaborators.             *)
(***************************************************************************)
VARIABLES
    files,        \* files[i]: input_path.exists() for the i-th argument
    total,        \* len(files)
    QDBUS,        \* a qdbus binary was found at import time
    pc,           \* position of the coordinator inside convert_files
    handle,       \* result of pbar_open: "bar" or "none"
    dialog,       \* the kdialog dialog: "none", "open", "gone", "closed"
    idx,          \* loop variable of the for loop
    done,
    errors,       \* list of error entries, [task, kind]
    cancelled,
    slice_start,  \* slice of 0..100 reserved for the current task
    slice_end,
    last_pct,
    duration,     \* get_duration(filepath): seconds, or NoDuration for None
    proc,         \* the ffmpeg child: "none", "running", "blocked" (in a
                  \* write to the full stderr pipe), "killed" (SIGKILL sent,
                  \* not dead yet), "exited", "reaped"
    returncode,
    progFile,     \* out_time_ms records of the current progress file, in order
    progFiles,    \* tasks whose temporary progress file exists on disk
    outFiles,     \* tasks whose output file exists on disk
    progCreated,  \* history: tasks for which mkstemp was called
    spawned,      \* history: tasks for which Popen returned a process
    alive,        \* history: tasks whose encoder process has not exited
    reaped,       \* history: tasks whose encoder was reaped (poll or wait)
    updated,      \* history: tasks for which pbar_set was called
    lastSet,      \* history: value of the latest pbar_set call, -1 before any
    deadSet,      \* history: some pbar_set call returned False
    lateSet,      \* history: some pbar_set call came after pbar_close
    lastKind,     \* history: label of the latest pbar_set call, "none" before
    lastDup,      \* history: the latest pbar_set call repeated the value of
                  \* the call before it
    closeCount,   \* history: number of pbar_close calls
    notes,        \* history: notifications and dialogs shown, in order
    status,       \* history: outcome of each task
    calc,         \* scratch record of the arithmetic-only specifications
    memo          \* SliceTable and OverallTable, evaluated once

vars == <<files, total, QDBUS, pc, handle, dialog, idx, done, errors,
          cancelled, slice_start, slice_end, last_pct, duration, proc,
          returncode, progFile,
          progFiles, outFiles, progCreated, spawned, alive, reaped, updated,
          lastSet, deadSet, lateSet, lastKind, lastDup, closeCount, notes,
          status, calc, memo>>

envVars == <<files, total, QDBUS, memo>>
sliceVars == <<slice_start, slice_end>>
fsHist == <<progCreated, spawned>>
procHist == <<alive, reaped>>
barHist == <<updated, lastSet, deadSet, lateSet, lastKind, lastDup>>

MemoTables == [slices |-> SliceTable, ticks |-> OverallTable]
NoMemo == [slices |-> <<>>, ticks |-> <<>>]

NoCalc == [total |-> 0, idx |-> 0, duration |-> 0, us |-> 0,
           start |-> -1, end |-> -1, pct |-> -1,
           name |-> <<>>, fmt |-> "", out |-> <<>>]

Tasks == 0..(total - 1)

BatchInit(n, f, q) ==
    /\ total = n
    /\ files = f
    /\ QDBUS = q
    /\ pc = "open"
    /\ handle = "none"
    /\ dialog = "none"
    /\ idx = 0
    /\ done = 0
    /\ errors = <<>>
    /\ cancelled = FALSE
    /\ slice_start = 0
    /\ slice_end = 0
    /\ last_pct = 0
    /\ duration = NoDuration
    /\ proc = "none"
    /\ returncode = 0
    /\ progFile = <<>>
    /\ progFiles = {}
    /\ outFiles = {}
    /\ progCreated = {}
    /\ spawned = {}
    /\ alive = {}
    /\ reaped = {}
    /\ updated = {}
    /\ lastSet = -1
    /\ deadSet = FALSE
    /\ lateSet = FALSE
    /\ lastKind = "none"
    /\ lastDup = FALSE
    /\ closeCount = 0
    /\ notes = <<>>
    /\ status = [i \in 0..(n - 1) |-> "pending"]

Init ==
    /\ \E n \in 1..MaxFiles : \E f \in [0..(n - 1) -> BOOLEAN] :
           \E q \in BOOLEAN : BatchInit(n, f, q)
    /\ calc = NoCalc
    /\ memo = MemoTables

(***************************************************************************)
(* The display surface.                                                    *)
(***************************************************************************)
\* variant: the qdbus call made even without a handle
pbar_set_alive_nohandle == ~(QDBUS /\ dialog # "open")

\* return value of pbar_set
pbar_set_alive == ~(handle = "bar" /\ QDBUS /\ dialog # "open")

\* bookkeeping of one pbar_set(handle, value, label) call for the current task
pbar_set(value, kind) ==
    /\ lastSet' = value
    /\ lastKind' = kind
    /\ lastDup' = (value = lastSet)
    /\ updated' = updated \cup {idx}
    /\ deadSet' = (deadSet \/ ~pbar_set_alive)
    /\ lateSet' = (lateSet \/ closeCount > 0)

\* pbar_close(handle)
pbar_close ==
    /\ closeCount' = closeCount + 1
    /\ dialog' = IF handle = "bar" /\ QDBUS /\ dialog = "open"
                 THEN "closed" ELSE dialog

\* handle = pbar_open(...)
PbarOpen ==
    /\ pc = "open"
    /\ \E h \in {"bar", "none"} :
           /\ handle' = h
           /\ dialog' = IF h = "bar" THEN "open" ELSE "none"
    /\ pc' = "next"
    /\ UNCHANGED <<envVars, idx, done, errors, cancelled, sliceVars,
                   last_pct, duration, proc, returncode, progFile, progFiles,
                   outFiles, fsHist, barHist, closeCount, notes, status,
                   procHist, calc>>

\* the user presses Cancel, or the dialog goes away for any other reason
DialogGone ==
    /\ dialog = "open"
    /\ pc \notin {"returned", "raised"}
    /\ dialog' = "gone"
    /\ UNCHANGED <<envVars, pc, handle, idx, done, errors, cancelled,
                   sliceVars, last_pct, duration, proc, returncode, progFile,
                   progFiles, outFiles, fsHist, barHist, closeCount, notes,
                   status, procHist, calc>>

(***************************************************************************)
(* The for loop of convert_files, up to the spawn of the encoder.          *)
(***************************************************************************)
\* variant: the existence test placed after the "Preparing" update
MissingInput_AfterPrepare ==
    /\ pc = "next"
    /\ idx < total
    /\ ~files[idx]
    /\ pbar_set(memo.slices[total][idx][1], "Preparing")
    /\ errors' = Append(errors, [task |-> idx, kind |-> "not_found"])
    /\ status' = [status EXCEPT ![idx] = "missing"]
    /\ idx' = idx + 1
    /\ UNCHANGED <<envVars, pc, handle, dialog, done, cancelled, sliceVars,
                   last_pct, duration, proc, returncode, progFile, progFiles,
                   outFiles, fsHist, closeCount, notes, procHist, calc>>

\* if not input_path.exists(): errors.append(...); continue
MissingInput ==
    /\ pc = "next"
    /\ idx < total
    /\ ~files[idx]
    /\ errors' = Append(errors, [task |-> idx, kind |-> "not_found"])
    /\ status' = [status EXCEPT ![idx] = "missing"]
    /\ idx' = idx + 1
    /\ UNCHANGED <<envVars, pc, handle, dialog, done, cancelled, sliceVars,
                   last_pct, duration, proc, returncode, progFile, progFiles,
                   outFiles, fsHist, barHist, closeCount, notes,
                   procHist, calc>>

\* variant: a rejected task recorded as an error
PolicyReject_AsError ==
    /\ pc = "next"
    /\ idx < total
    /\ files[idx]
    /\ errors' = Append(errors, [task |-> idx, kind |-> "rejected"])
    /\ status' = [status EXCEPT ![idx] = "skipped"]
    /\ idx' = idx + 1
    /\ UNCHANGED <<envVars, pc, handle, dialog, done, cancelled, sliceVars,
                   last_pct, duration, proc, returncode, progFile, progFiles,
                   outFiles, fsHist, barHist, closeCount, notes, procHist,
                   calc>>

\* if not warn_if_lossy(input_codec, fmt): continue
PolicyReject ==
    /\ pc = "next"
    /\ idx < total
    /\ files[idx]
    /\ status' = [status EXCEPT ![idx] = "skipped"]
    /\ idx' = idx + 1
    /\ UNCHANGED <<envVars, pc, handle, dialog, done, errors, cancelled,
                   sliceVars, last_pct, duration, proc, returncode, progFile,
                   progFiles, outFiles, fsHist, barHist, closeCount, notes,
                   procHist, calc>>

\* policy accepted: pbar_set(handle, slice_start, "Preparing ..."), whose
\* result is dropped; mkstemp; get_duration
Prepare ==
    /\ pc = "next"
    /\ idx < total
    /\ files[idx]
    /\ slice_start' = memo.slices[total][idx][1]
    /\ slice_end' = memo.slices[total][idx][2]
    /\ pbar_set(slice_start', "Preparing")
    /\ progFiles' = progFiles \cup {idx}
    /\ progCreated' = progCreated \cup {idx}
    /\ progFile' = <<>>
    /\ \E d \in Durations : duration' = d
    /\ pc' = "spawn"
    /\ UNCHANGED <<envVars, handle, dialog, idx, done, errors, cancelled,
                   last_pct, proc, returncode, outFiles, spawned, closeCount,
                   notes, status, procHist, calc>>

\* proc = subprocess.Popen(cmd, ...); cancelled = False; last_pct = slice_start
SpawnOk ==
    /\ pc = "spawn"
    /\ proc' = "running"
    /\ returncode' = 0
    /\ spawned' = spawned \cup {idx}
    /\ alive' = alive \cup {idx}
    /\ cancelled' = FALSE
    /\ last_pct' = slice_start
    /\ status' = [status EXCEPT ![idx] = "running"]
    /\ pc' = "poll"
    /\ UNCHANGED <<envVars, handle, dialog, idx, done, errors, sliceVars,
                   duration, progFile, progFiles, outFiles, progCreated,
                   barHist, closeCount, notes, reaped, calc>>

\* subprocess.Popen raises (OSError): nothing in convert_files catches it
SpawnFail ==
    /\ pc = "spawn"
    /\ pc' = "raised"
    /\ UNCHANGED <<envVars, handle, dialog, idx, done, errors, cancelled,
                   sliceVars, last_pct, duration, proc, returncode, progFile,
                   progFiles, outFiles, fsHist, barHist, closeCount, notes,
                   status, procHist, calc>>

(***************************************************************************)
(* The encoder process.                                                    *)
(***************************************************************************)
\* ffmpeg appends an out_time_ms record to the progress file and writes
\* output; a process that was sent SIGKILL writes until it is dead
EncoderProgress ==
    /\ proc \in {"running", "killed"}
    /\ Len(progFile) < MaxRecs
    /\ \E us \in UsValues : progFile' = Append(progFile, us)
    /\ outFiles' = outFiles \cup {idx}
    /\ UNCHANGED <<envVars, pc, handle, dialog, idx, done, errors, cancelled,
                   sliceVars, last_pct, duration, proc, returncode,
                   progFiles, fsHist, barHist, closeCount, notes, status,
                   procHist, calc>>

\* ffmpeg exits on its own
EncoderExit ==
    /\ proc = "running"
    /\ proc' = "exited"
    /\ alive' = alive \ {idx}
    /\ \E rc \in ExitCodes :
           /\ returncode' = rc
           /\ outFiles' = IF rc = 0 THEN outFiles \cup {idx} ELSE outFiles
    /\ UNCHANGED <<envVars, pc, handle, dialog, idx, done, errors, cancelled,
                   sliceVars, last_pct, duration, progFile, progFiles,
                   fsHist, barHist, closeCount, notes, status, reaped, calc>>

\* stderr=subprocess.PIPE is not read while the encoder runs: once ffmpeg has
\* written a pipe buffer of diagnostics its next write to stderr blocks
EncoderBlock ==
    /\ proc = "running"
    /\ proc' = "blocked"
    /\ UNCHANGED <<envVars, pc, handle, dialog, idx, done, errors, cancelled,
                   sliceVars, last_pct, duration, returncode, progFile,
                   progFiles, outFiles, fsHist, barHist, closeCount, notes,
                   status, procHist, calc>>

\* the SIGKILL sent by proc.kill() takes effect
EncoderDie ==
    /\ proc = "killed"
    /\ proc' = "exited"
    /\ alive' = alive \ {idx}
    /\ returncode' = SIGKILL
    /\ UNCHANGED <<envVars, pc, handle, dialog, idx, done, errors, cancelled,
                   sliceVars, last_pct, duration, progFile, progFiles,
                   outFiles, fsHist, barHist, closeCount, notes, status,
                   reaped, calc>>

(***************************************************************************)
(* The poll loop.                                                          *)
(***************************************************************************)
\* while proc.poll() is None: time.sleep(0.5)
PollAlive ==
    /\ pc = "poll"
    /\ proc \in {"running", "blocked"}
    /\ pc' = "tick"
    /\ UNCHANGED <<envVars, handle, dialog, idx, done, errors, cancelled,
                   sliceVars, last_pct, duration, proc, returncode, progFile,
                   progFiles, outFiles, fsHist, barHist, closeCount, notes,
                   status, procHist, calc>>

\* matches and duration and duration > 0
have_progress == Len(progFile) > 0 /\ duration # NoDuration /\ duration > 0

\* overall computed from matches[-1]
tick_overall ==
    memo.ticks[<<progFile[Len(progFile)], duration,
                 <<slice_start, slice_end>>>>]

\* variant: forward whenever the value changed
should_forward_changed(ov, last) == ov # last

\* variant: forward whenever the value did not go down
should_forward_same(ov, last) == ov >= last

\* if overall > last_pct
should_forward(ov, last) == ov > last

\* body of the loop: read the progress file, forward, kill on a dead dialog
PollStep(ov) ==
    /\ pc = "tick"
    /\ IF have_progress /\ should_forward(ov, last_pct)
       THEN /\ last_pct' = ov
            /\ pbar_set(ov, "Converting")
            /\ IF pbar_set_alive
               THEN /\ pc' = "poll"
                    /\ UNCHANGED <<cancelled, proc, status>>
               ELSE /\ proc' = IF proc \in {"running", "blocked"}
                               THEN "killed" ELSE proc
                    /\ cancelled' = TRUE
                    /\ status' = [status EXCEPT ![idx] = "cancelled"]
                    /\ pc' = "wait"
       ELSE /\ pc' = "poll"
            /\ UNCHANGED <<last_pct, barHist, cancelled, proc, status>>
    /\ UNCHANGED <<envVars, handle, dialog, idx, done, errors, sliceVars,
                   duration, returncode, progFile, progFiles, outFiles,
                   fsHist, closeCount, notes, procHist, calc>>

PollTick == PollStep(IF have_progress THEN tick_overall ELSE last_pct)

\* variant: the loop also ends, without a wait, once the bar has reached the
\* end of the slice
LoopExit_Early ==
    /\ pc = "poll"
    /\ \/ /\ proc = "exited"
          /\ proc' = "reaped"
          /\ reaped' = reaped \cup {idx}
          /\ pc' = "wait"
       \/ /\ proc = "running"
          /\ last_pct = slice_end
          /\ pc' = "unlink"
          /\ UNCHANGED <<proc, reaped>>
    /\ UNCHANGED <<envVars, handle, dialog, idx, done, errors, cancelled,
                   sliceVars, last_pct, duration, returncode, progFile,
                   progFiles, outFiles, fsHist, barHist, closeCount, notes,
                   status, alive, calc>>

\* proc.poll() is not None: the loop ends
LoopExit ==
    /\ pc = "poll"
    /\ proc = "exited"
    /\ proc' = "reaped"
    /\ reaped' = reaped \cup {idx}
    /\ pc' = "wait"
    /\ UNCHANGED <<envVars, handle, dialog, idx, done, errors, cancelled,
                   sliceVars, last_pct, duration, returncode, progFile,
                   progFiles, outFiles, fsHist, barHist, closeCount, notes,
                   status, alive, calc>>

\* variant: no proc.wait() between the loop and the cleanup
Wait_Skip ==
    /\ pc = "wait"
    /\ pc' = "unlink"
    /\ UNCHANGED <<envVars, handle, dialog, idx, done, errors, cancelled,
                   sliceVars, last_pct, duration, proc, returncode, progFile,
                   progFiles, outFiles, fsHist, barHist, closeCount, notes,
                   status, procHist, calc>>

\* proc.wait(): returns once the encoder has exited
Wait ==
    /\ pc = "wait"
    /\ proc \in {"exited", "reaped"}
    /\ proc' = "reaped"
    /\ reaped' = reaped \cup {idx}
    /\ pc' = "unlink"
    /\ UNCHANGED <<envVars, handle, dialog, idx, done, errors, cancelled,
                   sliceVars, last_pct, duration, returncode, progFile,
                   progFiles, outFiles, fsHist, barHist, closeCount, notes,
                   status, alive, calc>>

\* os.unlink(prog_path)
UnlinkProg ==
    /\ pc = "unlink"
    /\ progFiles' = progFiles \ {idx}
    /\ pc' = IF cancelled THEN "cancel" ELSE "result"
    /\ UNCHANGED <<envVars, handle, dialog, idx, done, errors, cancelled,
                   sliceVars, last_pct, duration, proc, returncode, progFile,
                   outFiles, fsHist, barHist, closeCount, notes, status,
                   procHist, calc>>

(***************************************************************************)
(* After the encoder: cancel, failure, success.                            *)
(***************************************************************************)
\* variant: the partial output left in place on cancel
CancelUnlinkOutput_Keep ==
    /\ pc = "cancel"
    /\ pc' = "cancel_close"
    /\ UNCHANGED <<envVars, handle, dialog, idx, done, errors, cancelled,
                   sliceVars, last_pct, duration, proc, returncode, progFile,
                   progFiles, outFiles, fsHist, barHist, closeCount, notes,
                   status, procHist, calc>>

\* if cancelled: output_path.unlink()
CancelUnlinkOutput ==
    /\ pc = "cancel"
    /\ outFiles' = outFiles \ {idx}
    /\ pc' = "cancel_close"
    /\ UNCHANGED <<envVars, handle, dialog, idx, done, errors, cancelled,
                   sliceVars, last_pct, duration, proc, returncode, progFile,
                   progFiles, fsHist, barHist, closeCount, notes, status,
                   procHist, calc>>

\* variant: the cancel path returning without closing the dialog
CancelClose_Skip ==
    /\ pc = "cancel_close"
    /\ pc' = "cancel_notify"
    /\ UNCHANGED <<envVars, handle, dialog, idx, done, errors, cancelled,
                   sliceVars, last_pct, duration, proc, returncode, progFile,
                   progFiles, outFiles, fsHist, barHist, closeCount, notes,
                   status, procHist, calc>>

\* pbar_close(handle)
CancelClose ==
    /\ pc = "cancel_close"
    /\ pbar_close
    /\ pc' = "cancel_notify"
    /\ UNCHANGED <<envVars, handle, idx, done, errors, cancelled, sliceVars,
                   last_pct, duration, proc, returncode, progFile, progFiles,
                   outFiles, fsHist, barHist, notes, status, procHist, calc>>

\* notify("Audio Converter - Cancelled", ...); return
CancelNotify ==
    /\ pc = "cancel_notify"
    /\ notes' = Append(notes, "cancelled")
    /\ pc' = "returned"
    /\ UNCHANGED <<envVars, handle, dialog, idx, done, errors, cancelled,
                   sliceVars, last_pct, duration, proc, returncode, progFile,
                   progFiles, outFiles, fsHist, barHist, closeCount, status,
                   procHist, calc>>

\* the next iteration rebinds the slice, duration, proc, last_pct and the
\* progress path before it reads them: the values of the finished iteration
\* are dead
EndIteration ==
    /\ duration' = NoDuration
    /\ proc' = "none"
    /\ returncode' = 0
    /\ slice_start' = 0
    /\ slice_end' = 0
    /\ last_pct' = 0
    /\ progFile' = <<>>

\* variant: a failed encode ending the loop instead of continuing
TaskFailed_Break ==
    /\ pc = "result"
    /\ returncode # 0
    /\ errors' = Append(errors, [task |-> idx, kind |-> "encode"])
    /\ outFiles' = outFiles \ {idx}
    /\ status' = [status EXCEPT ![idx] = "failed"]
    /\ idx' = total
    /\ pc' = "next"
    /\ EndIteration
    /\ UNCHANGED <<envVars, handle, dialog, done, cancelled, progFiles,
                   fsHist, barHist, closeCount, notes, procHist, calc>>

\* variant: a failed encode counted as converted as well
TaskFailed_CountsDone ==
    /\ pc = "result"
    /\ returncode # 0
    /\ errors' = Append(errors, [task |-> idx, kind |-> "encode"])
    /\ done' = done + 1
    /\ outFiles' = outFiles \ {idx}
    /\ status' = [status EXCEPT ![idx] = "failed"]
    /\ idx' = idx + 1
    /\ pc' = "next"
    /\ EndIteration
    /\ UNCHANGED <<envVars, handle, dialog, cancelled, progFiles, fsHist,
                   barHist, closeCount, notes, procHist, calc>>

\* variant: the "Done" update made for a failed encode too
TaskFailed_PushEnd ==
    /\ pc = "result"
    /\ returncode # 0
    /\ errors' = Append(errors, [task |-> idx, kind |-> "encode"])
    /\ outFiles' = outFiles \ {idx}
    /\ pbar_set(slice_end, "Done")
    /\ status' = [status EXCEPT ![idx] = "failed"]
    /\ idx' = idx + 1
    /\ pc' = "next"
    /\ EndIteration
    /\ UNCHANGED <<envVars, handle, dialog, done, cancelled, progFiles,
                   fsHist, closeCount, notes, procHist, calc>>

\* if proc.returncode != 0: errors.append(...); output_path.unlink()
TaskFailed ==
    /\ pc = "result"
    /\ returncode # 0
    /\ errors' = Append(errors, [task |-> idx, kind |-> "encode"])
    /\ outFiles' = outFiles \ {idx}
    /\ status' = [status EXCEPT ![idx] = "failed"]
    /\ idx' = idx + 1
    /\ pc' = "next"
    /\ EndIteration
    /\ UNCHANGED <<envVars, handle, dialog, done, cancelled, progFiles,
                   fsHist, barHist, closeCount, notes, procHist, calc>>

\* else: done += 1; pbar_set(handle, slice_end, "Done ..."), result dropped
TaskDone ==
    /\ pc = "result"
    /\ returncode = 0
    /\ done' = done + 1
    /\ pbar_set(slice_end, "Done")
    /\ status' = [status EXCEPT ![idx] = "done"]
    /\ idx' = idx + 1
    /\ pc' = "next"
    /\ EndIteration
    /\ UNCHANGED <<envVars, handle, dialog, errors, cancelled, progFiles,
                   outFiles, fsHist, closeCount, notes, procHist, calc>>

(***************************************************************************)
(* After the loop.                                                         *)
(***************************************************************************)
\* the for loop is exhausted: pbar_close(handle)
PbarCloseFinal ==
    /\ pc = "next"
    /\ idx = total
    /\ pbar_close
    /\ pc' = "report"
    /\ UNCHANGED <<envVars, handle, idx, done, errors, cancelled, sliceVars,
                   last_pct, duration, proc, returncode, progFile, progFiles,
                   outFiles, fsHist, barHist, notes, status, procHist, calc>>

\* the final notification, then convert_files returns
FinalReport ==
    /\ pc = "report"
    /\ notes' = IF Len(errors) > 0 THEN Append(notes, "errors")
                ELSE IF done > 0 THEN Append(notes, "done")
                ELSE notes
    /\ pc' = "returned"
    /\ UNCHANGED <<envVars, handle, dialog, idx, done, errors, cancelled,
                   sliceVars, last_pct, duration, proc, returncode, progFile,
                   progFiles, outFiles, fsHist, barHist, closeCount, status,
                   procHist, calc>>

Next ==
    \/ PbarOpen
    \/ DialogGone
    \/ MissingInput
    \/ PolicyReject
    \/ Prepare
    \/ SpawnOk
    \/ SpawnFail
    \/ EncoderProgress
    \/ EncoderExit
    \/ EncoderBlock
    \/ EncoderDie
    \/ PollAlive
    \/ PollTick
    \/ LoopExit
    \/ Wait
    \/ UnlinkProg
    \/ CancelUnlinkOutput
    \/ CancelClose
    \/ CancelNotify
    \/ TaskFailed
    \/ TaskDone
    \/ PbarCloseFinal
    \/ FinalReport

Spec == Init /\ [][Next]_vars

\* the steps of convert_files itself: each one returns, so the coordinator
\* does not stop while one of them is possible
Coordinator ==
    \/ PbarOpen
    \/ MissingInput
    \/ PolicyReject
    \/ Prepare
    \/ SpawnOk
    \/ SpawnFail
    \/ PollAlive
    \/ PollTick
    \/ LoopExit
    \/ Wait
    \/ UnlinkProg
    \/ CancelUnlinkOutput
    \/ CancelClose
    \/ CancelNotify
    \/ TaskFailed
    \/ TaskDone
    \/ PbarCloseFinal
    \/ FinalReport

\* the run under its scheduling: the coordinator keeps stepping, an encoder
\* that stays able to exit does exit, a killed encoder dies
FairSpec ==
    /\ Spec
    /\ WF_vars(Coordinator)
    /\ WF_vars(EncoderExit)
    /\ WF_vars(EncoderDie)

(***************************************************************************)
(* Arithmetic-only specifications: the slice of a task and the percent of  *)
(* a poll tick, applied to inputs drawn from bounded sets.                 *)
(***************************************************************************)
MaxTotal == 50
MaxPctTotal == 3
MaxUsSteps == 250
PctDurations == {10, 20}

IdleBatch == BatchInit(1, [i \in {0} |-> TRUE], TRUE) /\ memo = NoMemo

batchVars == <<files, total, QDBUS, pc, handle, dialog, idx, done, errors,
               cancelled, slice_start, slice_end, last_pct, duration, proc,
               returncode, progFile, progFiles, outFiles, progCreated,
               spawned, alive, reaped, updated, lastSet, deadSet, lateSet,
               lastKind, lastDup, closeCount, notes, status, memo>>

SliceInit ==
    /\ IdleBatch
    /\ \E n \in 1..MaxTotal : \E i \in 0..(n - 1) :
           calc = [NoCalc EXCEPT !.total = n, !.idx = i]

\* slice_start = int(idx / total * 100)
\* slice_end = int((idx + 1) / total * 100)
SliceCalc ==
    /\ calc.start = -1
    /\ calc' = [calc EXCEPT !.start = slice_start_at(calc.idx, calc.total),
                            !.end = slice_end_at(calc.idx, calc.total)]
    /\ UNCHANGED batchVars

SliceNext == SliceCalc

SliceSpec == SliceInit /\ [][SliceNext]_vars

PctInit ==
    /\ IdleBatch
    /\ \E n \in 1..MaxPctTotal : \E i \in 0..(n - 1) :
       \E d \in PctDurations : \E k \in 0..MaxUsSteps :
           calc = [NoCalc EXCEPT !.total = n, !.idx = i, !.duration = d,
                                 !.us = k * 100000]

\* one pass of the loop body for a task with a known positive duration
PctCalc ==
    /\ calc.pct = -1
    /\ calc' = [calc EXCEPT
                  !.start = slice_start_at(calc.idx, calc.total),
                  !.end = slice_end_at(calc.idx, calc.total),
                  !.pct = overall(calc.us, calc.duration,
                                  slice_start_at(calc.idx, calc.total),
                                  slice_end_at(calc.idx, calc.total))]
    /\ UNCHANGED batchVars

PctNext == PctCalc

PctSpec == PctInit /\ [][PctNext]_vars

(***************************************************************************)
(* The output path of a task.  A file name is a sequence of tokens: "." is *)
(* the dot, every other token a dot-free piece of text; the directory part *)
(* of the path is left alone by with_suffix and with_stem.                 *)
(***************************************************************************)
MaxNameLen == 3
NameTokens == {".", "_", "a", "mp3", "MP3", "m4a"}
Formats == {"mp3", "ogg", "m4a", "opus", "flac", "wav", "alac"}

\* the file names of at most MaxNameLen tokens; "." and ".." name no file
FileNames ==
    UNION {[1..n -> NameTokens] : n \in 1..MaxNameLen}
        \ {<<".">>, <<".", ".">>}

\* name.rfind("."), 0 when there is no dot
LastDot(name) ==
    IF \E i \in 1..Len(name) : name[i] = "."
    THEN CHOOSE i \in 1..Len(name) :
             /\ name[i] = "."
             /\ \A j \in (i + 1)..Len(name) : name[j] # "."
    ELSE 0

\* PurePath.suffix: from the last dot, unless it starts or ends the name
path_suffix(name) ==
    IF 1 < LastDot(name) /\ LastDot(name) < Len(name)
    THEN SubSeq(name, LastDot(name), Len(name))
    ELSE <<>>

\* PurePath.stem
path_stem(name) == SubSeq(name, 1, Len(name) - Len(path_suffix(name)))

\* PurePath.with_suffix(suffix)
with_suffix(name, suffix) == path_stem(name) \o suffix

\* PurePath.with_stem(stem) = with_name(stem + self.suffix)
with_stem(name, stem) == stem \o path_suffix(name)

\* suffix = ".m4a" if fmt in ("m4a", "alac") else f".{fmt}"
suffix_for(fmt) == <<".", IF fmt \in {"m4a", "alac"} THEN "m4a" ELSE fmt>>

\* variant: the suffix replaced, without the test for a collision
output_path_plain(name, fmt) == with_suffix(name, suffix_for(fmt))

\* output_path of a task, lines 383-388
output_path_of(name, fmt) ==
    IF with_suffix(name, suffix_for(fmt)) = name
    THEN with_suffix(with_stem(name, path_stem(name) \o <<"_", fmt>>),
                     suffix_for(fmt))
    ELSE with_suffix(name, suffix_for(fmt))

PathInit ==
    /\ IdleBatch
    /\ \E n \in FileNames : \E f \in Formats :
           calc = [NoCalc EXCEPT !.name = n, !.fmt = f]

PathCalc ==
    /\ calc.out = <<>>
    /\ calc' = [calc EXCEPT !.out = output_path_of(calc.name, calc.fmt)]
    /\ UNCHANGED batchVars

PathNext == PathCalc

PathSpec == PathInit /\ [][PathNext]_vars

(***************************************************************************)
(* Properties.                                                             *)
(***************************************************************************)
DoneTasks == {i \in Tasks : status[i] = "done"}
ErrorsOf(i) == {k \in 1..Len(errors) : errors[k].task = i}
ErrorsInTaskOrder ==
    \A k \in 1..Len(errors) : \A l \in 1..Len(errors) :
        k < l => errors[k].task < errors[l].task
Returned == pc = "returned"
LaterUntouched ==
    \A j \in Tasks : j > idx =>
        /\ j \notin spawned
        /\ j \notin progCreated
        /\ j \notin progFiles
        /\ status[j] = "pending"

\* C1, as stated: a batch cancelled during task k (the task at idx = k - 1)
\* ends with done = k - 1 and cancelled = true, the output of task k removed
\* and no later task started, whatever the outcomes of the earlier tasks.
C1_Original ==
    (Returned /\ cancelled) =>
        /\ done = idx
        /\ idx \notin outFiles
        /\ LaterUntouched

\* C1, amended: a batch cancelled during task k ends with cancelled = true and
\* done = the number of tasks among 1..k-1 whose encoder exited with code 0
\* (so done <= k - 1), the output of task k removed and no later task started.
C1_CancelResult ==
    (Returned /\ cancelled) =>
        /\ idx < total
        /\ status[idx] = "cancelled"
        /\ done = Cardinality({j \in 0..(idx - 1) : status[j] = "done"})
        /\ done <= idx
        /\ idx \notin outFiles
        /\ LaterUntouched

C1_Witness ==
    /\ Returned /\ cancelled
    /\ total = 3 /\ idx = 1
    /\ status[0] = "failed" /\ done = 0
    /\ notes = <<"cancelled">>

\* C2, as stated: a batch that runs to completion without cancellation ends
\* with 100 as the last percentage given to pbar_set, whatever the outcome of
\* each task, the last one included.
C2_Original == (Returned /\ ~cancelled) => lastSet = 100

\* C2, amended: a batch that runs to completion without cancellation and
\* whose last task was converted (encoder exit code 0) ends with 100 as the
\* last percentage given to pbar_set.
C2_FinalIs100 ==
    (Returned /\ ~cancelled /\ status[total - 1] = "done") => lastSet = 100

C2_Witness ==
    /\ Returned /\ ~cancelled
    /\ total = 3
    /\ status[0] = "failed" /\ status[1] = "skipped" /\ status[2] = "done"
    /\ lastSet = 100

\* C3: within one run the values given to pbar_set never decrease, whatever
\* the tasks' outcomes and whatever records the progress files hold.
C3_Monotone == [][lastSet' >= lastSet]_vars

C3_Witness ==
    /\ pc = "poll"
    /\ idx = 1
    /\ Len(progFile) = 2 /\ progFile[2] < progFile[1]
    /\ last_pct = slice_end /\ lastSet = slice_end
    /\ slice_start < slice_end

\* C4: an encoder exit with a non-zero code is local to its task: one error
\* entry for the task, in task order, done not incremented for it, cancelled
\* not set by it, and every later task is still attempted.
C4_FailureIsLocal ==
    \A i \in Tasks : status[i] = "failed" =>
        /\ i \in spawned
        /\ Cardinality(ErrorsOf(i)) = 1
        /\ ErrorsInTaskOrder
        /\ done = Cardinality(DoneTasks)
        /\ idx > i
        /\ cancelled => (idx < total /\ status[idx] = "cancelled")
        /\ (Returned /\ ~cancelled) =>
               \A j \in Tasks : j > i =>
                   /\ status[j] # "pending"
                   /\ (files[j] /\ status[j] # "skipped") => j \in spawned

C4_Witness ==
    /\ Returned /\ ~cancelled
    /\ total = 3
    /\ status[0] = "done" /\ status[1] = "failed" /\ status[2] = "done"
    /\ done = 2
    /\ Len(errors) = 1 /\ errors[1].task = 1
    /\ spawned = {0, 1, 2}

\* C5: a task whose input path does not exist gets one error entry and
\* nothing else: no encoder, no progress file, no pbar_set call; the loop
\* goes on with the next task.
C5_MissingInput ==
    \A i \in Tasks : ~files[i] =>
        /\ i \notin spawned
        /\ i \notin progCreated
        /\ i \notin updated
        /\ Cardinality(ErrorsOf(i)) = (IF idx > i THEN 1 ELSE 0)
        /\ \A k \in ErrorsOf(i) : errors[k].kind = "not_found"
        /\ (status[i] = "missing") = (idx > i)

C5_Witness ==
    /\ Returned
    /\ total = 3
    /\ ~files[1] /\ files[2]
    /\ status[1] = "missing"
    /\ 2 \in spawned /\ 2 \in updated

\* C8: in a run that ends by exhaustion or by cancellation pbar_close is
\* called exactly once, and pbar_set is never called after it.
C8_CloseOnce ==
    /\ closeCount <= 1
    /\ Returned => closeCount = 1
    /\ (closeCount = 1) => pc \in {"cancel_notify", "report", "returned"}
    /\ ~lateSet

C8_Witness ==
    /\ Returned /\ cancelled
    /\ closeCount = 1
    /\ dialog = "gone"
    /\ lastSet > 0

\* C9: when convert_files is left, on any path (success, failure, cancel,
\* failure to spawn the encoder), no progress file created by the run remains.
C9_NoProgressFileLeft ==
    pc \in {"returned", "raised"} => progFiles = {}

\* C10: once a pbar_set call has returned not-alive (Preparing, Converting or
\* Done), no further encoder is started and the run ends as cancelled.
C10_DeadCallCancels ==
    [][deadSet => (spawned' = spawned /\ (pc' = "returned" => cancelled'))]_vars

\* floor(i * 100 / N) in exact integer arithmetic
ExactSlice(i, n) == (i * 100) \div n

\* C6, as stated: slice_start = floor(idx*100/total) and
\* slice_end = floor((idx+1)*100/total) for every total and idx < total.
C6_Original ==
    calc.start # -1 =>
        /\ calc.start = ExactSlice(calc.idx, calc.total)
        /\ calc.end = ExactSlice(calc.idx + 1, calc.total)

\* the value int(i / n * 100) may take: the exact floor, or one less where
\* i*100/n is a whole number and the float product falls just below it
NearSlice(v, i, n) ==
    /\ v \in {ExactSlice(i, n) - 1, ExactSlice(i, n)}
    /\ (i * 100) % n # 0 => v = ExactSlice(i, n)

\* C6, amended: slice_start and slice_end are the float expressions
\* int(idx/total*100) and int((idx+1)/total*100): each equals the exact floor
\* whenever total does not divide 100*idx (100*(idx+1)), and is the floor or
\* one less when it does; task 0 starts at 0, the last task ends at 100, and
\* a slice is never empty-negative (slice_start <= slice_end).
C6_SliceNearFloor ==
    calc.start # -1 =>
        /\ NearSlice(calc.start, calc.idx, calc.total)
        /\ NearSlice(calc.end, calc.idx + 1, calc.total)
        /\ 0 <= calc.start /\ calc.start <= calc.end /\ calc.end <= 100
        /\ calc.idx = 0 => calc.start = 0
        /\ calc.idx = calc.total - 1 => calc.end = 100

C6_Witness ==
    /\ calc.total = 50 /\ calc.idx = 29
    /\ calc.start = 57
    /\ ExactSlice(calc.idx, calc.total) = 58

\* slice_start + floor(fraction * width) in exact integer arithmetic, fraction
\* being us / (duration * 10^6) clamped to [0, 1]
ExactNum(us, d, s, e) ==
    (IF us >= d * 1000000 THEN d * 1000000 ELSE us) * (e - s)
ExactDen(d) == d * 1000000
ExactPct(us, d, s, e) == s + (ExactNum(us, d, s, e) \div ExactDen(d))

\* C7, as stated: the percent of a tick is slice_start + floor(fraction *
\* (slice_end - slice_start)).
C7_Original ==
    calc.pct # -1 =>
        calc.pct = ExactPct(calc.us, calc.duration, calc.start, calc.end)

\* C7, amended: the percent of a tick is the float expression slice_start +
\* int(file_pct * (slice_end - slice_start)): it equals slice_start +
\* floor(fraction * width) unless fraction * width is a whole number, where it
\* is that number or one less; it lies in the task's slice; 5,000,000 us of
\* 10 s in task 1 of 2 gives 25, 10,000,000 us of 20 s in task 2 of 2 gives
\* 75, and an elapsed time of the duration or more gives slice_end.
C7_PctNearFloor ==
    calc.pct # -1 =>
        LET x == ExactPct(calc.us, calc.duration, calc.start, calc.end)
            whole == ExactNum(calc.us, calc.duration, calc.start, calc.end)
                         % ExactDen(calc.duration) = 0
        IN  /\ calc.pct \in {x - 1, x}
            /\ ~whole => calc.pct = x
            /\ calc.start <= calc.pct /\ calc.pct <= calc.end
            /\ calc.us >= calc.duration * 1000000 => calc.pct = calc.end
            /\ (calc.total = 2 /\ calc.idx = 0 /\ calc.duration = 10
                  /\ calc.us = 5000000) => calc.pct = 25
            /\ (calc.total = 2 /\ calc.idx = 1 /\ calc.duration = 20
                  /\ calc.us = 10000000) => calc.pct = 75

C7_Witness ==
    /\ calc.total = 1 /\ calc.idx = 0 /\ calc.duration = 10
    /\ calc.us = 700000
    /\ calc.pct = 6
    /\ ExactPct(calc.us, calc.duration, calc.start, calc.end) = 7

\* number of failure summaries (the error dialog with its notification) shown
FailureSummaries == Cardinality({k \in 1..Len(notes) : notes[k] = "errors"})

\* C11: a run in which at least one error was recorded shows exactly one
\* failure summary, when the run ends and never earlier, whether it ends by
\* exhaustion or by cancellation.
C11_FailureSummaryOnce ==
    /\ FailureSummaries <= 1
    /\ FailureSummaries = 1 => (Returned /\ Len(errors) > 0)
    /\ (Returned /\ Len(errors) > 0) => FailureSummaries = 1

\* the coordinator is inside the iteration of task idx, after get_duration
InTask ==
    pc \in {"spawn", "poll", "tick", "wait", "unlink", "result", "cancel",
            "cancel_close", "cancel_notify"}

\* get_duration returned None or a non-positive value for the current task
ProbeFailed == InTask /\ (duration = NoDuration \/ duration <= 0)

\* C12, as stated: no pbar_set call of a run is given the value of the call
\* before it, the "Preparing" and "Done" calls included.
C12_Original == ~lastDup

\* C12, amended: a "Converting" call is given a value strictly greater than
\* the value of the call before it; only the unconditional "Preparing" and
\* "Done" calls can repeat the value of the call before them.
C12_ConvertingStrict ==
    /\ lastDup => lastKind \in {"Preparing", "Done"}
    /\ (lastKind = "Converting" /\ InTask) =>
           (lastSet = last_pct /\ lastSet > slice_start)

C12_Witness ==
    /\ pc = "spawn"
    /\ idx = 1
    /\ status[0] = "done"
    /\ lastKind = "Preparing"
    /\ lastDup
    /\ lastSet > 0

\* tasks rejected by the lossy-source policy
SkippedTasks == {i \in Tasks : status[i] = "skipped"}

\* C13: a task rejected by warn_if_lossy is skipped: done is not incremented,
\* no error is recorded, the batch is not cancelled, no encoder is spawned and
\* no progress file is created for it, and the loop goes on with the next
\* task.
C13_PolicySkip ==
    \A i \in SkippedTasks :
        /\ files[i]
        /\ i \notin spawned
        /\ i \notin progCreated
        /\ i \notin updated
        /\ ErrorsOf(i) = {}
        /\ i \notin DoneTasks
        /\ done = Cardinality(DoneTasks)
        /\ idx > i
        /\ cancelled => (idx < total /\ status[idx] = "cancelled")
        /\ (Returned /\ ~cancelled) =>
               \A j \in Tasks : j > i => status[j] # "pending"

C13_Witness ==
    /\ Returned /\ ~cancelled
    /\ total = 3
    /\ status[0] = "done" /\ status[1] = "skipped" /\ status[2] = "done"
    /\ done = 2
    /\ errors = <<>>
    /\ spawned = {0, 2}
    /\ progCreated = {0, 2}

\* C14: tasks run in list order and one at a time: at most one encoder
\* process is alive, and the encoder of a task is spawned only after the
\* encoder of every earlier spawned task has exited and has been reaped.
C14_OneEncoder ==
    /\ Cardinality(alive) <= 1
    /\ alive \subseteq {idx}
    /\ spawned \subseteq 0..idx
    /\ \A i \in spawned : i < idx => (i \in reaped /\ i \notin alive)
    /\ pc = "spawn" => (alive = {} /\ spawned \subseteq reaped)

C14_Witness ==
    /\ pc = "tick"
    /\ total = 3 /\ idx = 2
    /\ spawned = {0, 1, 2}
    /\ reaped = {0, 1}
    /\ alive = {2}
    /\ status[0] = "done" /\ status[1] = "failed"

\* pbar_open gave no handle, or no qdbus binary was found
NoDisplay == pc # "open" /\ (handle = "none" \/ ~QDBUS)

\* C15: without a handle or without qdbus every pbar_set call reports alive:
\* no task is cancelled, no encoder is killed, and every task with an
\* existing, accepted input runs until its encoder exits on its own.
C15_NoDisplayNoCancel ==
    NoDisplay =>
        /\ ~deadSet
        /\ ~cancelled
        /\ proc # "killed"
        /\ returncode # SIGKILL
        /\ \A k \in 1..Len(notes) : notes[k] # "cancelled"
        /\ \A i \in Tasks :
               /\ status[i] # "cancelled"
               /\ (i \in spawned /\ i < idx) =>
                      (status[i] \in {"done", "failed"} /\ i \in reaped)

C15_Witness ==
    /\ Returned
    /\ handle = "bar" /\ ~QDBUS /\ dialog = "gone"
    /\ total = 2
    /\ status[0] = "done" /\ status[1] = "failed"
    /\ lastKind = "Converting"
    /\ lastSet > 50

\* C16: when the duration probe fails for a task, no mid-flight value is
\* forwarded for it: while the task is in progress its "Preparing" call at
\* slice_start stays the latest pbar_set call and last_pct stays slice_start;
\* the task is never cancelled and its encoder never killed; and a "Done"
\* call is the latest call only after the latest spawned task was converted.
C16_NoDurationNoMidFlight ==
    /\ ProbeFailed =>
           /\ lastKind = "Preparing"
           /\ lastSet = slice_start
           /\ pc # "spawn" => last_pct = slice_start
           /\ ~cancelled
           /\ status[idx] # "cancelled"
           /\ proc # "killed"
           /\ returncode # SIGKILL
    /\ lastKind = "Done" =>
           /\ spawned # {}
           /\ \A i \in spawned :
                  (\A j \in spawned : j <= i) => status[i] = "done"

C16_Witness ==
    /\ pc = "result"
    /\ idx = 1
    /\ duration = 0
    /\ Len(progFile) = 2
    /\ returncode = 0
    /\ lastKind = "Preparing"
    /\ lastSet = slice_start
    /\ slice_start > 0

\* C17: every task is counted at most once: done + number of errors <=
\* number of tasks already processed (idx) <= total in every state, done
\* counts the converted tasks, no task has two error entries or is both
\* converted and in error, and a run that ends without cancellation has
\* done + errors + skipped tasks = total.
C17_CountedOnce ==
    /\ done + Len(errors) <= idx
    /\ idx <= total
    /\ done = Cardinality(DoneTasks)
    /\ \A i \in Tasks :
           /\ Cardinality(ErrorsOf(i)) <= 1
           /\ ErrorsOf(i) # {} => (i \notin DoneTasks /\ i \notin SkippedTasks)
    /\ (Returned /\ ~cancelled) =>
           /\ idx = total
           /\ done + Len(errors) + Cardinality(SkippedTasks) = total

C17_Witness ==
    /\ Returned /\ ~cancelled
    /\ total = 3
    /\ done = 1
    /\ Len(errors) = 1
    /\ Cardinality(SkippedTasks) = 1
    /\ status[2] = "done"

\* C18: the output path of a task differs from its input path (compared as
\* paths, the way pathlib compares them): it is the input with its suffix
\* replaced, or, when that is the input itself, <stem>_<fmt><suffix>.
C18_OutputDiffers ==
    calc.out # <<>> =>
        LET sfx == suffix_for(calc.fmt)
            ends == /\ Len(calc.name) > 2
                    /\ SubSeq(calc.name, Len(calc.name) - 1, Len(calc.name))
                         = sfx
        IN  /\ calc.out # calc.name
            /\ SubSeq(calc.out, Len(calc.out) - 1, Len(calc.out)) = sfx
            /\ ends => calc.out =
                   SubSeq(calc.name, 1, Len(calc.name) - 2)
                       \o <<"_", calc.fmt>> \o sfx
            /\ ~ends => calc.out = path_stem(calc.name) \o sfx

C18_Witness ==
    /\ calc.name = <<"a", ".", "m4a">>
    /\ calc.fmt = "alac"
    /\ calc.out = <<"a", "_", "alac", ".", "m4a">>

\* C19: on cancellation the steps come in the order kill, wait, progress
\* file removed, partial output removed, dialog closed, notification; and at
\* every place where the progress file or the output is deleted, on the
\* failure path too, the encoder is dead and has been waited for.
C19_CleanupOrder ==
    /\ (pc = "wait" /\ cancelled) => proc \in {"killed", "exited", "reaped"}
    /\ pc \in {"unlink", "result", "cancel", "cancel_close", "cancel_notify"}
           => (proc = "reaped" /\ idx \in reaped /\ alive = {})
    /\ (pc = "unlink" /\ cancelled) => (closeCount = 0 /\ notes = <<>>)
    /\ pc = "cancel" =>
           (idx \notin progFiles /\ closeCount = 0 /\ notes = <<>>)
    /\ pc = "cancel_close" =>
           /\ idx \notin progFiles /\ idx \notin outFiles
           /\ closeCount = 0 /\ notes = <<>>
    /\ pc = "cancel_notify" =>
           /\ idx \notin progFiles /\ idx \notin outFiles
           /\ closeCount = 1 /\ notes = <<>>
    /\ (Returned /\ cancelled) =>
           /\ idx \notin progFiles /\ idx \notin outFiles
           /\ closeCount = 1 /\ notes = <<"cancelled">>
           /\ idx \in reaped /\ alive = {}

C19_Witness ==
    /\ Returned /\ cancelled
    /\ idx = 1
    /\ returncode = SIGKILL
    /\ Len(progFile) = 2
    /\ notes = <<"cancelled">>
    /\ closeCount = 1
    /\ progFiles = {} /\ outFiles = {0}

\* C20: every run of convert_files ends: it returns, after the final report
\* or the cancel notification, or is left by an exception, also when the
\* encoder writes more diagnostics to its stderr pipe than the pipe holds.
C20_Terminates == <>(pc \in {"returned", "raised"})

====
